---------------------------- MODULE Spec2Model ----------------------------
(***************************************************************************)
(* LightningProx MCP server (cmd/mcp-server/main.go).                      *)
(*                                                                         *)
(* The five tool handlers (ask_ai, get_invoice, check_balance,             *)
(* list_models, get_pricing), the HTTP helper makeRequest and the JSON     *)
(* decoding they rely on, as a state machine over tool invocations.        *)
(*                                                                         *)
(* Numbers.  A float64 that comes from a decimal literal is kept as a      *)
(* decimal [m, e] meaning m * 10^-e, so 0.05 is [m |-> 5, e |-> 2].  Go's  *)
(* int(x) conversion truncates toward zero.                                *)
(*                                                                         *)
(* LIGHTNINGPROX_URL is left unset, so the base URL is the default one and *)
(* http.NewRequest always succeeds.  The clock behind expires_at is not    *)
(* modelled.                                                               *)
(***************************************************************************)
EXTENDS Integers, Sequences, FiniteSets, TLC

VARIABLES
    call,      \* call[i]: the tool invocation running in slot i
    env,       \* the process environment (BTC_PRICE_USD)
    session    \* "running" while server.Run serves the stdio transport

vars == <<call, env, session>>

---------------------------------------------------------------------------
(* Bounds of the model *)

\* longest `content` / `choices` list in a synthetic upstream body
MaxBlocks == 2

\* tool invocations the dispatcher has in flight at a time
MaxInFlight == 2

---------------------------------------------------------------------------
(* Program constants *)

DefaultModel == "claude-sonnet-4-20250514"
DefaultMaxTokens == 1024
DefaultBtcPrice == 100000
AssumedInputTokens == 100
MinSats == 1
StatusOK == 200
StatusPaymentRequired == 402

---------------------------------------------------------------------------
(* Decimal arithmetic standing for the float64 computations *)

RECURSIVE Pow10(_)
Pow10(n) == IF n = 0 THEN 1 ELSE 10 * Pow10(n - 1)

Dec(m, e) == [m |-> m, e |-> e]

DecZero == Dec(0, 0)

DecMul(a, b) == Dec(a.m * b.m, a.e + b.e)

DecAdd(a, b) ==
    LET e == IF a.e >= b.e THEN a.e ELSE b.e
    IN  Dec(a.m * Pow10(e - a.e) + b.m * Pow10(e - b.e), e)

\* a and b denote the same number
DecEq(a, b) ==
    LET e == IF a.e >= b.e THEN a.e ELSE b.e
    IN  a.m * Pow10(e - a.e) = b.m * Pow10(e - b.e)

\* truncation toward zero of num / den, den # 0
TruncDiv(num, den) ==
    LET an == IF num < 0 THEN -num ELSE num
        ad == IF den < 0 THEN -den ELSE den
        q  == an \div ad
    IN  IF (num < 0) = (den < 0) THEN q ELSE -q

\* int(x) of a float64 x that is within the range of int
IntOf(d) == TruncDiv(d.m, Pow10(d.e))

---------------------------------------------------------------------------
(* JSON text on the wire.  An object is its list of <<key, value>>         *)
(* members in the order they are written; a number is written m e-e.       *)

Garbage(text) == [t |-> "garbage", raw |-> text]
JNull == [t |-> "null"]
JStr(s) == [t |-> "str", s |-> s]
JNum(m, e) == [t |-> "num", m |-> m, e |-> e]
JArr(items) == [t |-> "arr", a |-> items]
JObj(members) == [t |-> "obj", o |-> members]

\* string(respBody): the text of a body
RECURSIVE Raw(_)
RECURSIVE RawItems(_)
RECURSIVE RawMembers(_)
Raw(j) ==
    CASE j.t = "garbage" -> j.raw
      [] j.t = "null" -> "null"
      [] j.t = "str" -> "\"" \o j.s \o "\""
      [] j.t = "num" -> ToString(j.m) \o "e-" \o ToString(j.e)
      [] j.t = "arr" -> "[" \o RawItems(j.a) \o "]"
      [] j.t = "obj" -> "{" \o RawMembers(j.o) \o "}"
RawItems(s) ==
    IF s = <<>> THEN ""
    ELSE Raw(Head(s)) \o (IF Len(s) > 1 THEN "," ELSE "") \o RawItems(Tail(s))
RawMembers(s) ==
    IF s = <<>> THEN ""
    ELSE "\"" \o Head(s)[1] \o "\":" \o Raw(Head(s)[2])
         \o (IF Len(s) > 1 THEN "," ELSE "") \o RawMembers(Tail(s))

---------------------------------------------------------------------------
(* encoding/json decoding into interface{} values *)

GoNil == [k |-> "nil"]
GoString(s) == [k |-> "string", str |-> s]
GoFloat(d) == [k |-> "float64", num |-> d]
GoSlice(items) == [k |-> "slice", items |-> items]
GoMap(f) == [k |-> "map", map |-> f]

EmptyMap == <<>>

Keys(members) == {members[n][1] : n \in DOMAIN members}

\* a later member with the same key replaces an earlier one
LastIndex(members, key) ==
    CHOOSE n \in DOMAIN members :
        /\ members[n][1] = key
        /\ \A m \in DOMAIN members : members[m][1] = key => m <= n

RECURSIVE Decode(_)
Decode(j) ==
    CASE j.t = "null" -> GoNil
      [] j.t = "str" -> GoString(j.s)
      [] j.t = "num" -> GoFloat(Dec(j.m, j.e))
      [] j.t = "arr" -> GoSlice([n \in DOMAIN j.a |-> Decode(j.a[n])])
      [] j.t = "obj" ->
            GoMap([key \in Keys(j.o) |-> Decode(j.o[LastIndex(j.o, key)][2])])

\* json.Unmarshal(respBody, &respData) with respData a nil
\* map[string]interface{}: an object fills the map, null leaves it nil,
\* anything else is an error
Unmarshal(body) ==
    CASE body.t = "obj" -> [ok |-> TRUE, data |-> Decode(body).map]
      [] body.t = "null" -> [ok |-> TRUE, data |-> EmptyMap]
      [] OTHER -> [ok |-> FALSE, data |-> EmptyMap]

\* v, _ := m[key].(string) and its siblings; a nil map has no keys
HasType(m, key, kind) == key \in DOMAIN m /\ m[key].k = kind
AsString(m, key) == IF HasType(m, key, "string") THEN m[key].str ELSE ""
AsFloat(m, key) == IF HasType(m, key, "float64") THEN m[key].num ELSE DecZero
AsMap(m, key) == IF HasType(m, key, "map") THEN m[key].map ELSE EmptyMap


---------------------------------------------------------------------------
(* HTTP helper *)

DefaultLightningProxURL == "https://lightningprox.com"

getLightningProxURL == DefaultLightningProxURL

NoHeaders == <<>>

\* req.Header.Set of the two fixed headers, then of every caller header
RequestHeaders(headers) ==
    headers @@ ("Content-Type" :> "application/json"
                @@ "User-Agent" :> "lightningprox-mcp/1.0")

\* the request makeRequest hands to client.Do; body is <<>> for a nil body
NewRequest(method, url, body, headers) ==
    [method |-> method, url |-> url, body |-> body,
     headers |-> RequestHeaders(headers)]

\* what client.Do and io.ReadAll can come back with
Responded(status, body) == [kind |-> "response", status |-> status, body |-> body]
NoExchange == [kind |-> "none", status |-> 0, body |-> Garbage("")]
DoFailed == [kind |-> "do_failed", status |-> 0, body |-> Garbage("")]
ReadFailed(status) == [kind |-> "read_failed", status |-> status, body |-> Garbage("")]

\* the (respBody, statusCode, err) makeRequest returns
makeRequest(exchange) ==
    CASE exchange.kind = "do_failed" ->
            [respBody |-> Garbage(""), statusCode |-> 0, err |-> "request failed"]
      [] exchange.kind = "read_failed" ->
            [respBody |-> Garbage(""), statusCode |-> exchange.status,
             err |-> "failed to read response"]
      [] exchange.kind = "response" ->
            [respBody |-> exchange.body, statusCode |-> exchange.status,
             err |-> "nil"]

---------------------------------------------------------------------------
(* Tool inputs and outputs *)

Input(model, prompt, maxTokens, paymentHash, spendToken) ==
    [Model |-> model, Prompt |-> prompt, MaxTokens |-> maxTokens,
     PaymentHash |-> paymentHash, SpendToken |-> spendToken]

NoInput == Input("", "", 0, "", "")

AskAIOutput ==
    [Response |-> "", ChargeID |-> "", PaymentReq |-> "", AmountSats |-> 0,
     AmountUSD |-> DecZero, Status |-> "", Error |-> ""]

GetInvoiceOutput ==
    [ChargeID |-> "", PaymentReq |-> "", AmountSats |-> 0,
     AmountUSD |-> DecZero, ExpiresAt |-> "", Status |-> ""]

CheckBalanceOutput ==
    [BalanceSats |-> 0, BalanceUSD |-> DecZero, RequestsLeft |-> 0,
     ExpiresAt |-> "", Status |-> ""]

\* the same handing a failure to the dispatcher as a Go error
Returned_FailureAsError(out) ==
    [out |-> out,
     err |-> IF "Status" \in DOMAIN out /\ out.Status = "error"
             THEN "tool failed" ELSE "nil"]

\* a handler's (output, error) pair
Returned(out) == [out |-> out, err |-> "nil"]

\* if maxTokens <= 0 { maxTokens = 1024 }
EffectiveMaxTokens(n) == IF n <= 0 THEN DefaultMaxTokens ELSE n

\* the same without the default: the model is sent as given
EffectiveModel_AsGiven(m) == m

\* if model == "" { model = "claude-sonnet-4-20250514" }
EffectiveModel(m) == IF m = "" THEN DefaultModel ELSE m

\* if prompt == "" { prompt = "ping" }  (get_invoice only)
EffectivePrompt(p) == IF p = "" THEN "ping" ELSE p

RequestBody(model, maxTokens, prompt) ==
    <<[model |-> model, max_tokens |-> maxTokens,
       messages |-> <<[role |-> "user", content |-> prompt]>>]>>

MessagesURL == getLightningProxURL \o "/v1/messages"
BalanceURL == getLightningProxURL \o "/v1/balance"

---------------------------------------------------------------------------
(* ask_ai *)

\* the same with the payment hash tried first
AskAIHeaders_HashFirst(input) ==
    IF input.PaymentHash # "" THEN "X-Payment-Hash" :> input.PaymentHash
    ELSE IF input.SpendToken # "" THEN "X-Spend-Token" :> input.SpendToken
    ELSE NoHeaders

\* spend token first, else payment hash, else no payment header
AskAIHeaders(input) ==
    IF input.SpendToken # "" THEN "X-Spend-Token" :> input.SpendToken
    ELSE IF input.PaymentHash # "" THEN "X-Payment-Hash" :> input.PaymentHash
    ELSE NoHeaders

\* the requests handleAskAI sends for an input
AskAIRequests(input) ==
    <<NewRequest("POST", MessagesURL,
                 RequestBody(EffectiveModel(input.Model),
                             EffectiveMaxTokens(input.MaxTokens),
                             input.Prompt),
                 AskAIHeaders(input))>>

\* the 402 branch: the nested payment object, every field optional
PaymentRequired(respData) ==
    LET payment == AsMap(respData, "payment")
    IN  [AskAIOutput EXCEPT
            !.Status = "payment_required",
            !.ChargeID = AsString(payment, "charge_id"),
            !.PaymentReq = AsString(payment, "payment_request"),
            !.AmountSats = IntOf(AsFloat(payment, "amount_sats")),
            !.AmountUSD = AsFloat(payment, "amount_usd")]

\* fmt.Sprintf("HTTP %d: %s", statusCode, string(respBody))
HTTPErrorText(statusCode, respBody) ==
    "HTTP " \o ToString(statusCode) \o ": " \o Raw(respBody)

UpstreamError(respData, statusCode, respBody) ==
    LET errMsg == AsString(respData, "error")
    IN  [AskAIOutput EXCEPT
            !.Status = "error",
            !.Error = IF errMsg = "" THEN HTTPErrorText(statusCode, respBody)
                      ELSE errMsg]

\* Anthropic format: the text of every block that is an object with a
\* string `text`
RECURSIVE BlockTexts(_)
BlockTexts(content) ==
    IF content = <<>> THEN ""
    ELSE LET block == Head(content)
             text == IF block.k = "map" /\ HasType(block.map, "text", "string")
                     THEN block.map["text"].str ELSE ""
         IN  text \o BlockTexts(Tail(content))

\* OpenAI format: message.content of every choice that has one
RECURSIVE ChoiceTexts(_)
ChoiceTexts(choices) ==
    IF choices = <<>> THEN ""
    ELSE LET choice == Head(choices)
             msg == IF choice.k = "map" THEN AsMap(choice.map, "message")
                    ELSE EmptyMap
         IN  AsString(msg, "content") \o ChoiceTexts(Tail(choices))

\* the same falling through to `choices` when `content` gave no text
ResponseText_FirstNonEmpty(respData) ==
    LET blocks == IF HasType(respData, "content", "slice")
                  THEN BlockTexts(respData["content"].items) ELSE ""
    IN  IF blocks # "" THEN blocks
        ELSE IF HasType(respData, "choices", "slice")
        THEN ChoiceTexts(respData["choices"].items)
        ELSE ""

\* the two shapes: `content` when it is a list, else `choices` when it is
ResponseText(respData) ==
    IF HasType(respData, "content", "slice")
    THEN BlockTexts(respData["content"].items)
    ELSE IF HasType(respData, "choices", "slice")
    THEN ChoiceTexts(respData["choices"].items)
    ELSE ""

Success(respData, respBody) ==
    [AskAIOutput EXCEPT !.Status = "success", !.Response = ResponseText(respData)]

TransportError(err) == [AskAIOutput EXCEPT !.Status = "error", !.Error = err]

ParseError ==
    [AskAIOutput EXCEPT !.Status = "error", !.Error = "failed to parse response"]

\* the same looking at the status before decoding the body
handleAskAI_StatusFirst(input, exchange) ==
    LET r == makeRequest(exchange)
        parsed == Unmarshal(r.respBody)
    IN  IF r.err # "nil" THEN Returned(TransportError(r.err))
        ELSE IF r.statusCode = StatusPaymentRequired
        THEN Returned(PaymentRequired(parsed.data))
        ELSE IF ~parsed.ok THEN Returned(ParseError)
        ELSE IF r.statusCode # StatusOK
        THEN Returned(UpstreamError(parsed.data, r.statusCode, r.respBody))
        ELSE Returned(Success(parsed.data, r.respBody))

\* handleAskAI from the return of makeRequest on
handleAskAI(input, exchange) ==
    LET r == makeRequest(exchange)
        parsed == Unmarshal(r.respBody)
    IN  IF r.err # "nil" THEN Returned(TransportError(r.err))
        ELSE IF ~parsed.ok THEN Returned(ParseError)
        ELSE IF r.statusCode = StatusPaymentRequired
        THEN Returned(PaymentRequired(parsed.data))
        ELSE IF r.statusCode # StatusOK
        THEN Returned(UpstreamError(parsed.data, r.statusCode, r.respBody))
        ELSE Returned(Success(parsed.data, r.respBody))

---------------------------------------------------------------------------
(* get_invoice *)

\* handleGetInvoice passes nil headers
GetInvoiceRequests(input) ==
    <<NewRequest("POST", MessagesURL,
                 RequestBody(EffectiveModel(input.Model),
                             EffectiveMaxTokens(input.MaxTokens),
                             EffectivePrompt(input.Prompt)),
                 NoHeaders)>>

\* time.Now().Add(15 * time.Minute).Format(time.RFC3339); the clock is
\* not part of the model
InvoiceExpiry == "now+15m"

InvoiceGenerated(respData) ==
    LET payment == AsMap(respData, "payment")
    IN  [GetInvoiceOutput EXCEPT
            !.ChargeID = AsString(payment, "charge_id"),
            !.PaymentReq = AsString(payment, "payment_request"),
            !.AmountSats = IntOf(AsFloat(payment, "amount_sats")),
            !.AmountUSD = AsFloat(payment, "amount_usd"),
            !.ExpiresAt = InvoiceExpiry,
            !.Status = "invoice_generated"]

\* fmt.Sprintf("unexpected_status_%d", statusCode)
UnexpectedStatus(statusCode) ==
    [GetInvoiceOutput EXCEPT
        !.Status = "unexpected_status_" \o ToString(statusCode)]

InvoiceError == [GetInvoiceOutput EXCEPT !.Status = "error"]

\* the same decoding the body before looking at the status
handleGetInvoice_DecodeFirst(input, exchange) ==
    LET r == makeRequest(exchange)
        parsed == Unmarshal(r.respBody)
    IN  IF r.err # "nil" THEN Returned(InvoiceError)
        ELSE IF ~parsed.ok THEN Returned(InvoiceError)
        ELSE IF r.statusCode # StatusPaymentRequired
        THEN Returned(UnexpectedStatus(r.statusCode))
        ELSE Returned(InvoiceGenerated(parsed.data))

\* handleGetInvoice from the return of makeRequest on
handleGetInvoice(input, exchange) ==
    LET r == makeRequest(exchange)
        parsed == Unmarshal(r.respBody)
    IN  IF r.err # "nil" THEN Returned(InvoiceError)
        ELSE IF r.statusCode # StatusPaymentRequired
        THEN Returned(UnexpectedStatus(r.statusCode))
        ELSE IF ~parsed.ok THEN Returned(InvoiceError)
        ELSE Returned(InvoiceGenerated(parsed.data))

---------------------------------------------------------------------------
(* check_balance *)

\* the header is set whatever the token is, the empty one included
CheckBalanceRequests(input) ==
    <<NewRequest("GET", BalanceURL, <<>>, "X-Spend-Token" :> input.SpendToken)>>

\* the same copying the status the gateway reports
BalanceStatus_FromBody(respData) == AsString(respData, "status")

\* the status of a decoded balance is the literal "ok"
BalanceStatus(respData) == "ok"

Balance(respData) ==
    [CheckBalanceOutput EXCEPT
        !.BalanceSats = IntOf(AsFloat(respData, "balance_sats")),
        !.BalanceUSD = AsFloat(respData, "balance_usd"),
        !.RequestsLeft = IntOf(AsFloat(respData, "requests_left_estimate")),
        !.ExpiresAt = AsString(respData, "expires_at"),
        !.Status = BalanceStatus(respData)]

BalanceError == [CheckBalanceOutput EXCEPT !.Status = "error"]

\* fmt.Sprintf("error_%d", statusCode)
BalanceHTTPError(statusCode) ==
    [CheckBalanceOutput EXCEPT !.Status = "error_" \o ToString(statusCode)]

\* handleCheckBalance from the return of makeRequest on
handleCheckBalance(input, exchange) ==
    LET r == makeRequest(exchange)
        parsed == Unmarshal(r.respBody)
    IN  IF r.err # "nil" THEN Returned(BalanceError)
        ELSE IF r.statusCode # StatusOK
        THEN Returned(BalanceHTTPError(r.statusCode))
        ELSE IF ~parsed.ok THEN Returned(BalanceError)
        ELSE Returned(Balance(parsed.data))

---------------------------------------------------------------------------
(* list_models *)

ModelInfo(id, provider, inputCost, outputCost, maxContext) ==
    [ID |-> id, Provider |-> provider, InputCost |-> inputCost,
     OutputCost |-> outputCost, MaxContext |-> maxContext]

Models ==
    << ModelInfo("claude-sonnet-4-20250514", "anthropic", Dec(3, 3), Dec(15, 3), 200000),
       ModelInfo("claude-3-5-sonnet-20241022", "anthropic", Dec(3, 3), Dec(15, 3), 200000),
       ModelInfo("gpt-4-turbo", "openai", Dec(1, 2), Dec(3, 2), 128000),
       ModelInfo("gpt-3.5-turbo", "openai", Dec(5, 4), Dec(15, 4), 16385) >>

handleListModels == Returned([Models |-> Models])

---------------------------------------------------------------------------
(* get_pricing *)

\* the factor 1.2 every table entry is multiplied by
Markup == Dec(12, 1)

Pricing(inputCost, outputCost) ==
    [inputCost |-> DecMul(inputCost, Markup),
     outputCost |-> DecMul(outputCost, Markup)]

SonnetPricing == Pricing(Dec(3, 3), Dec(15, 3))

prices ==
    "claude-sonnet-4-20250514" :> SonnetPricing
    @@ "claude-3-5-sonnet-20241022" :> Pricing(Dec(3, 3), Dec(15, 3))
    @@ "gpt-4-turbo" :> Pricing(Dec(1, 2), Dec(3, 2))
    @@ "gpt-3.5-turbo" :> Pricing(Dec(5, 4), Dec(15, 4))

\* p, ok := prices[model]; if !ok { p = default to sonnet pricing }
PriceOf(model) ==
    IF model \in DOMAIN prices THEN prices[model] ELSE SonnetPricing

\* (100.0/1000.0)*p.inputCost + (float64(maxTokens)/1000.0)*p.outputCost
EstimatedUSD(p, maxTokens) ==
    DecAdd(DecMul(Dec(AssumedInputTokens, 3), p.inputCost),
           DecMul(Dec(maxTokens, 3), p.outputCost))

Digits == <<"0", "1", "2", "3", "4", "5", "6", "7", "8", "9">>

IsDigit(c) == \E d \in DOMAIN Digits : Digits[d] = c

DigitValue(c) == (CHOOSE d \in DOMAIN Digits : Digits[d] = c) - 1

\* the longest prefix of s made of digits
RECURSIVE DigitPrefix(_)
DigitPrefix(s) ==
    IF s = <<>> \/ ~IsDigit(Head(s)) THEN <<>>
    ELSE <<Head(s)>> \o DigitPrefix(Tail(s))

RECURSIVE DigitsValue(_, _)
DigitsValue(s, acc) ==
    IF s = <<>> THEN acc
    ELSE DigitsValue(Tail(s), 10 * acc + DigitValue(Head(s)))

\* fmt.Sscanf(envPrice, "%f", &btcPrice) on a value written as an optional
\* sign and digits: the number is read up to the first other character;
\* with no digit to read the scan fails and btcPrice keeps its value
Sscanf(envPrice, btcPrice) ==
    LET signed == envPrice # <<>> /\ Head(envPrice) \in {"-", "+"}
        rest == IF signed THEN Tail(envPrice) ELSE envPrice
        digits == DigitPrefix(rest)
        value == DigitsValue(digits, 0)
    IN  IF digits = <<>> THEN btcPrice
        ELSE IF signed /\ Head(envPrice) = "-" THEN -value
        ELSE value

\* btcPrice := 100000.0; if envPrice != "" { Sscanf(...) }
BtcPrice(envPrice) ==
    IF envPrice # <<>> THEN Sscanf(envPrice, DefaultBtcPrice) ELSE DefaultBtcPrice

\* the exact value of (estimatedUSD / btcPrice) * 100_000_000 as a
\* fraction, btcPrice # 0 (100_000_000 is 10^8)
SatsFraction(usd, btcPrice) ==
    IF usd.e <= 8
    THEN [num |-> usd.m * Pow10(8 - usd.e), den |-> btcPrice]
    ELSE [num |-> usd.m, den |-> btcPrice * Pow10(usd.e - 8)]

\* the results int() can give where the float64 is +Inf (btcPrice = 0):
\* the conversion is implementation-dependent, the amd64 builds give the
\* most negative int and the arm64 builds the largest one (Makefile,
\* release).  TLC's integers are 32 bits wide, so the ends of that range
\* stand for the ends of int64
OutOfRangeInts == {-2147483647, 2147483647}

\* int((estimatedUSD / btcPrice) * 100_000_000).  The costs 0.0036, 0.018,
\* ... are not float64 values, so a quotient that is exactly a whole number
\* n may be computed a little below n and truncate to n - 1: `ulp` is that
\* rounding (0 or 1), `inf` the result of converting +Inf
SatsOf(usd, btcPrice, ulp, inf) ==
    IF btcPrice = 0 THEN inf
    ELSE LET f == SatsFraction(usd, btcPrice)
             q == TruncDiv(f.num, f.den)
         IN  IF q > 0 /\ q * f.den = f.num THEN q - ulp ELSE q

\* the same without the floor
FloorSats_None(sats) == sats

\* if estimatedSats < 1 { estimatedSats = 1 }
FloorSats(sats) == IF sats < MinSats THEN MinSats ELSE sats

handleGetPricing(input, envPrice, ulp, inf) ==
    LET model == EffectiveModel(input.Model)
        maxTokens == EffectiveMaxTokens(input.MaxTokens)
        p == PriceOf(model)
        estimatedUSD == EstimatedUSD(p, maxTokens)
        btcPrice == BtcPrice(envPrice)
    IN  Returned([Model |-> model,
                  EstimatedSats |-> FloorSats(SatsOf(estimatedUSD, btcPrice, ulp, inf)),
                  EstimatedUSD |-> estimatedUSD,
                  InputCostPer1K |-> p.inputCost,
                  OutputCostPer1K |-> p.outputCost,
                  Markup |-> "20%"])

---------------------------------------------------------------------------
(* Inputs the clients send and replies the gateway gives *)

SeqsUpTo(S, n) == UNION {[1..k -> S] : k \in 0..n}

TextBlock(text) == JObj(<< <<"type", JStr("text")>>, <<"text", JStr(text)>> >>)

\* blocks of a `content` list: two with text, one without, one whose text
\* is not a string, one that is not an object
Blocks ==
    { TextBlock("A"), TextBlock("B"),
      JObj(<< <<"type", JStr("tool_use")>> >>),
      JObj(<< <<"text", JNum(7, 0)>> >>),
      JStr("x") }

Choice(text) ==
    JObj(<< <<"message", JObj(<< <<"role", JStr("assistant")>>,
                                 <<"content", JStr(text)>> >>)>> >>)

\* entries of a `choices` list: two with message.content, one with an
\* empty message, one whose message is not an object
ChoiceEntries ==
    { Choice("C"), Choice("D"),
      JObj(<< <<"message", JObj(<<>>)>> >>),
      JObj(<< <<"message", JStr("m")>> >>) }

AnthropicBodies ==
    {JObj(<< <<"content", JArr(c)>> >>) : c \in SeqsUpTo(Blocks, MaxBlocks)}

OpenAIBodies ==
    {JObj(<< <<"choices", JArr(c)>> >>) : c \in SeqsUpTo(ChoiceEntries, MaxBlocks)}

\* bodies that carry both keys, or a `content` that is not a list
MixedBodies ==
    {JObj(<< <<"content", c>>, <<"choices", JArr(ch)>> >>) :
        c \in {JArr(<<>>), JStr("plain"), JArr(<<TextBlock("A")>>),
               JArr(<<JObj(<< <<"type", JStr("tool_use")>> >>)>>)},
        ch \in {<<Choice("C")>>, <<Choice("C"), Choice("D")>>}}
    \cup {JObj(<< <<"content", JStr("plain")>> >>),
          JObj(<< <<"choices", JStr("plain")>> >>)}

PaymentBodies ==
    { JObj(<< <<"payment", JObj(<< <<"charge_id", JStr("c1")>>,
                                   <<"payment_request", JStr("lnbc1")>>,
                                   <<"amount_sats", JNum(50, 0)>>,
                                   <<"amount_usd", JNum(5, 2)>> >>)>> >>),
      JObj(<< <<"payment", JObj(<< <<"charge_id", JStr("c2")>>,
                                   <<"amount_sats", JNum(509, 1)>> >>)>> >>),
      JObj(<< <<"payment", JObj(<< <<"charge_id", JNum(3, 0)>>,
                                   <<"payment_request", JNull>>,
                                   <<"amount_sats", JStr("50")>>,
                                   <<"amount_usd", JStr("0.05")>> >>)>> >>),
      JObj(<< <<"payment", JStr("lnbc1")>> >>) }

ErrorBodies ==
    { JObj(<< <<"error", JStr("bad model")>> >>),
      JObj(<< <<"error", JStr("")>> >>),
      JObj(<< <<"error", JNum(42, 0)>> >>),
      JObj(<< <<"error", JStr("first")>>, <<"error", JStr("second")>> >>),
      JObj(<<>>) }

BalanceBodies ==
    { JObj(<< <<"balance_sats", JNum(120, 0)>>, <<"status", JStr("active")>> >>),
      JObj(<< <<"balance_sats", JNum(1207, 1)>>,
              <<"balance_usd", JNum(12, 2)>>,
              <<"requests_left_estimate", JNum(45, 1)>>,
              <<"expires_at", JStr("2026-03-01T00:00:00Z")>>,
              <<"status", JStr("expired")>> >>),
      JObj(<< <<"balance_sats", JStr("120")>>,
              <<"expires_at", JNum(0, 0)>>,
              <<"status", JNum(1, 0)>> >>) }

\* bodies json.Unmarshal cannot put in a map, and the null it accepts
OddBodies == {Garbage("<html>"), Garbage(""), JArr(<<JStr("x")>>), JStr("ok"), JNull}

Bodies ==
    AnthropicBodies \cup OpenAIBodies \cup MixedBodies \cup PaymentBodies
    \cup ErrorBodies \cup BalanceBodies \cup OddBodies

Statuses == {200, 402, 500}

Exchanges ==
    {DoFailed} \cup {ReadFailed(s) : s \in Statuses}
    \cup {Responded(s, b) : s \in Statuses, b \in Bodies}

AskAIInputs ==
    {Input(m, p, n, h, t) :
        m \in {"", "gpt-4-turbo"}, p \in {"", "Explain quantum computing"},
        n \in {0, 256}, h \in {"", "c1"}, t \in {"", "lnpx_abc"}}

GetInvoiceInputs ==
    {Input(m, p, n, "", "") :
        m \in {"", "gpt-4-turbo"}, p \in {"", "Explain quantum computing"},
        n \in {-5, 256}}

CheckBalanceInputs == {Input("", "", 0, "", t) : t \in {"", "lnpx_abc"}}

GetPricingInputs ==
    {Input(m, "", n, "", "") :
        m \in {"", "claude-sonnet-4-20250514", "claude-3-5-sonnet-20241022",
               "gpt-4-turbo", "gpt-3.5-turbo", "o1-preview"},
        n \in {-1, 0, 1, 480, 500, 1024, 4096}}

\* values of BTC_PRICE_USD, character by character; <<>> is unset or empty
EnvPrices ==
    { <<>>, <<"5", "0", "0", "0", "0">>, <<"0">>, <<"-", "7">>,
      <<"a", "b", "c">>, <<"3", "x">> }

---------------------------------------------------------------------------
(* The server *)

NoOutput == [Status |-> ""]

Idle ==
    [pc |-> "idle", tool |-> "none", input |-> NoInput, sent |-> <<>>,
     exchange |-> NoExchange, out |-> NoOutput, err |-> "nil"]

Waiting(tool, input, requests) ==
    [pc |-> "waiting", tool |-> tool, input |-> input, sent |-> requests,
     exchange |-> NoExchange, out |-> NoOutput, err |-> "nil"]

\* the handler has returned; exchange is what its request came back with
Done(c, exchange, returned) ==
    [c EXCEPT !.pc = "done", !.exchange = exchange,
              !.out = returned.out, !.err = returned.err]

\* the invocations the dispatcher has in hand at a time
SlotIds == {1}

Init ==
    /\ call = [i \in SlotIds |-> Idle]
    /\ env \in EnvPrices
    /\ session = "running"

\* the same with the handler holding a process-wide lock over its exchange
CallAskAI_OneAtATime(i) ==
    /\ session = "running"
    /\ call[i].pc = "idle"
    /\ \A j \in DOMAIN call \ {i} : call[j].pc # "waiting"
    /\ \E input \in AskAIInputs :
          call' = [call EXCEPT ![i] = Waiting("ask_ai", input, AskAIRequests(input))]
    /\ UNCHANGED <<env, session>>

\* the dispatcher enters handleAskAI, which sends its request
CallAskAI(i) ==
    /\ session = "running"
    /\ call[i].pc = "idle"
    /\ \E input \in AskAIInputs :
          call' = [call EXCEPT ![i] = Waiting("ask_ai", input, AskAIRequests(input))]
    /\ UNCHANGED <<env, session>>

\* the exchange ends, in one of the ways of `exchanges`, and handleAskAI
\* returns
ReturnAskAIOn(i, exchanges) ==
    /\ session = "running"
    /\ call[i].pc = "waiting" /\ call[i].tool = "ask_ai"
    /\ \E exchange \in exchanges :
          call' = [call EXCEPT ![i] = Done(@, exchange, handleAskAI(call[i].input, exchange))]
    /\ UNCHANGED <<env, session>>

ReturnAskAI(i) == ReturnAskAIOn(i, Exchanges)

CallGetInvoice(i) ==
    /\ session = "running"
    /\ call[i].pc = "idle"
    /\ \E input \in GetInvoiceInputs :
          call' = [call EXCEPT
                      ![i] = Waiting("get_invoice", input, GetInvoiceRequests(input))]
    /\ UNCHANGED <<env, session>>

ReturnGetInvoiceOn(i, exchanges) ==
    /\ session = "running"
    /\ call[i].pc = "waiting" /\ call[i].tool = "get_invoice"
    /\ \E exchange \in exchanges :
          call' = [call EXCEPT
                      ![i] = Done(@, exchange, handleGetInvoice(call[i].input, exchange))]
    /\ UNCHANGED <<env, session>>

ReturnGetInvoice(i) == ReturnGetInvoiceOn(i, Exchanges)

CallCheckBalance(i) ==
    /\ session = "running"
    /\ call[i].pc = "idle"
    /\ \E input \in CheckBalanceInputs :
          call' = [call EXCEPT
                      ![i] = Waiting("check_balance", input, CheckBalanceRequests(input))]
    /\ UNCHANGED <<env, session>>

ReturnCheckBalanceOn(i, exchanges) ==
    /\ session = "running"
    /\ call[i].pc = "waiting" /\ call[i].tool = "check_balance"
    /\ \E exchange \in exchanges :
          call' = [call EXCEPT
                      ![i] = Done(@, exchange, handleCheckBalance(call[i].input, exchange))]
    /\ UNCHANGED <<env, session>>

ReturnCheckBalance(i) == ReturnCheckBalanceOn(i, Exchanges)

\* handleListModels runs to its return without a request
ListModels(i) ==
    /\ session = "running"
    /\ call[i].pc = "idle"
    /\ call' = [call EXCEPT
                   ![i] = Done(Waiting("list_models", NoInput, <<>>), NoExchange,
                               handleListModels)]
    /\ UNCHANGED <<env, session>>

\* handleGetPricing runs to its return without a request
GetPricing(i) ==
    /\ session = "running"
    /\ call[i].pc = "idle"
    /\ \E input \in GetPricingInputs, ulp \in {0, 1}, inf \in OutOfRangeInts :
          call' = [call EXCEPT
                      ![i] = Done(Waiting("get_pricing", input, <<>>), NoExchange,
                                  handleGetPricing(input, env, ulp, inf))]
    /\ UNCHANGED <<env, session>>

\* the result goes back to the client and the invocation is forgotten
Deliver(i) ==
    /\ session = "running"
    /\ call[i].pc = "done"
    /\ call' = [call EXCEPT ![i] = Idle]
    /\ UNCHANGED <<env, session>>

\* the client closes the stream: server.Run returns and the process ends
StdinClosed ==
    /\ session = "running"
    /\ session' = "stopped"
    /\ call' = [i \in DOMAIN call |-> Idle]
    /\ UNCHANGED env

Next ==
    \/ \E i \in DOMAIN call : CallAskAI(i)
    \/ \E i \in DOMAIN call : ReturnAskAI(i)
    \/ \E i \in DOMAIN call : CallGetInvoice(i)
    \/ \E i \in DOMAIN call : ReturnGetInvoice(i)
    \/ \E i \in DOMAIN call : CallCheckBalance(i)
    \/ \E i \in DOMAIN call : ReturnCheckBalance(i)
    \/ \E i \in DOMAIN call : ListModels(i)
    \/ \E i \in DOMAIN call : GetPricing(i)
    \/ \E i \in DOMAIN call : Deliver(i)
    \/ StdinClosed

Spec == Init /\ [][Next]_vars


\* client.Do runs under a 60 s timeout, so every exchange ends and the
\* handler that waits for it returns
Fairness ==
    \A i \in SlotIds :
        /\ WF_vars(ReturnAskAI(i))
        /\ WF_vars(ReturnGetInvoice(i))
        /\ WF_vars(ReturnCheckBalance(i))

LiveSpec == Spec /\ Fairness

---------------------------------------------------------------------------
(* The server with several invocations in flight.  The steps are the ones  *)
(* above, each handler running on its own; the clients send a few inputs   *)
(* and the gateway gives a few replies.                                    *)

ConcSlots == 1..MaxInFlight

ConcAskAIInputs ==
    { Input("gpt-4-turbo", "Explain quantum computing", 256, "", "lnpx_abc"),
      Input("", "", 0, "c1", "") }

ConcGetInvoiceInputs == {Input("gpt-4-turbo", "Explain quantum computing", 256, "", "")}

ConcCheckBalanceInputs == {Input("", "", 0, "", "lnpx_abc")}

ConcGetPricingInputs ==
    {Input("gpt-3.5-turbo", "", 500, "", ""), Input("o1-preview", "", 480, "", "")}

ConcExchanges ==
    { DoFailed,
      Responded(200, JObj(<< <<"content", JArr(<<TextBlock("A")>>)>> >>)),
      Responded(200, JObj(<< <<"balance_sats", JNum(120, 0)>>,
                             <<"status", JStr("active")>> >>)),
      Responded(402, JObj(<< <<"payment", JObj(<< <<"charge_id", JStr("c1")>>,
                                   <<"payment_request", JStr("lnbc1")>>,
                                   <<"amount_sats", JNum(50, 0)>>,
                                   <<"amount_usd", JNum(5, 2)>> >>)>> >>)),
      Responded(500, JObj(<< <<"error", JStr("bad model")>> >>)) }

ConcEnvPrices == { <<>>, <<"5", "0", "0", "0", "0">> }

ConcInit ==
    /\ call = [i \in ConcSlots |-> Idle]
    /\ env \in ConcEnvPrices
    /\ session = "running"

ConcNext ==
    \/ \E i \in DOMAIN call : CallAskAI(i) /\ call'[i].input \in ConcAskAIInputs
    \/ \E i \in DOMAIN call : ReturnAskAIOn(i, ConcExchanges)
    \/ \E i \in DOMAIN call :
          CallGetInvoice(i) /\ call'[i].input \in ConcGetInvoiceInputs
    \/ \E i \in DOMAIN call : ReturnGetInvoiceOn(i, ConcExchanges)
    \/ \E i \in DOMAIN call :
          CallCheckBalance(i) /\ call'[i].input \in ConcCheckBalanceInputs
    \/ \E i \in DOMAIN call : ReturnCheckBalanceOn(i, ConcExchanges)
    \/ \E i \in DOMAIN call : ListModels(i)
    \/ \E i \in DOMAIN call : GetPricing(i) /\ call'[i].input \in ConcGetPricingInputs
    \/ \E i \in DOMAIN call : Deliver(i)
    \/ StdinClosed

ConcSpec == ConcInit /\ [][ConcNext]_vars

---------------------------------------------------------------------------
(* Properties *)

Slots == DOMAIN call

Started(i, tool) == call[i].tool = tool /\ call[i].pc \in {"waiting", "done"}

Finished(i, tool) == call[i].tool = tool /\ call[i].pc = "done"

\* the upstream answered with this status (the body was read in full)
Answered(i, status) ==
    call[i].exchange.kind = "response" /\ call[i].exchange.status = status

MissingArgument(i) == call[i].input.Model = "" \/ call[i].input.Prompt = ""

PaymentHeaders == {"X-Spend-Token", "X-Payment-Hash"}

\* The body of a reply read as JSON text, without decoding it.
HasField(j, key) == j.t = "obj" /\ \E n \in DOMAIN j.o : j.o[n][1] = key

\* the value of the last member written with this key
WireField(j, key) ==
    LET at == {n \in DOMAIN j.o : j.o[n][1] = key}
    IN  j.o[CHOOSE n \in at : \A m \in at : m <= n][2]

IsList(j, key) == HasField(j, key) /\ WireField(j, key).t = "arr"
ListAt(j, key) == IF IsList(j, key) THEN WireField(j, key).a ELSE <<>>
StrAt(j, key) ==
    IF HasField(j, key) /\ WireField(j, key).t = "str"
    THEN WireField(j, key).s ELSE ""
NumAt(j, key) ==
    IF HasField(j, key) /\ WireField(j, key).t = "num"
    THEN Dec(WireField(j, key).m, WireField(j, key).e) ELSE DecZero
ObjAt(j, key) ==
    IF HasField(j, key) /\ WireField(j, key).t = "obj"
    THEN WireField(j, key) ELSE JObj(<<>>)

\* the body is a JSON object, or the null that decodes to an empty one
IsObject(j) == j.t \in {"obj", "null"}

RECURSIVE Concat(_)
Concat(strs) == IF strs = <<>> THEN "" ELSE Head(strs) \o Concat(Tail(strs))

\* the `text` fields of the blocks of `content`, in order
ContentShapeText(j) ==
    LET blocks == ListAt(j, "content")
    IN  Concat([n \in DOMAIN blocks |-> StrAt(blocks[n], "text")])

\* `message.content` of the entries of `choices`, in order
ChoicesShapeText(j) ==
    LET entries == ListAt(j, "choices")
    IN  Concat([n \in DOMAIN entries |-> StrAt(ObjAt(entries[n], "message"), "content")])

\* d is the whole part of the number x, rounded toward zero
WholePartOf(d, x) ==
    IF x.m >= 0 THEN d * Pow10(x.e) <= x.m /\ x.m < (d + 1) * Pow10(x.e)
    ELSE (d - 1) * Pow10(x.e) < x.m /\ x.m <= d * Pow10(x.e)

C2_OnePaymentHeader ==
    \A i \in Slots :
        Started(i, "ask_ai")
        => /\ Len(call[i].sent) = 1
           /\ LET h == call[i].sent[1].headers
                  in == call[i].input
              IN  /\ "X-Spend-Token" \in DOMAIN h <=> in.SpendToken # ""
                  /\ "X-Spend-Token" \in DOMAIN h
                        => h["X-Spend-Token"] = in.SpendToken
                  /\ "X-Payment-Hash" \in DOMAIN h
                        <=> (in.SpendToken = "" /\ in.PaymentHash # "")
                  /\ "X-Payment-Hash" \in DOMAIN h
                        => h["X-Payment-Hash"] = in.PaymentHash
                  /\ Cardinality(DOMAIN h \cap PaymentHeaders) <= 1

\* both credentials were supplied and only the spend token went out
C2_Witness ==
    \E i \in Slots :
        /\ Started(i, "ask_ai")
        /\ call[i].input.SpendToken # "" /\ call[i].input.PaymentHash # ""
        /\ DOMAIN call[i].sent[1].headers \cap PaymentHeaders = {"X-Spend-Token"}

\* C3, as stated: on a 200 reply with a JSON body the text is the
\* concatenation of the `text` fields of `content`, and if that yields no
\* text, the concatenation of `message.content` across `choices`.
C3_SecondShapeWhenNoText ==
    \A i \in Slots :
        Finished(i, "ask_ai") /\ Answered(i, 200) /\ IsObject(call[i].exchange.body)
        => LET body == call[i].exchange.body
           IN  call[i].out.Response =
                  IF ContentShapeText(body) # "" THEN ContentShapeText(body)
                  ELSE ChoicesShapeText(body)

\* C3, amended: on a 200 reply with a JSON body the text is the in-order
\* concatenation of the `text` fields of the blocks of `content` whenever
\* the body has a `content` list, even if that gives no text; `choices` is
\* read only when the body has no `content` list (no such key, or not a
\* list), and then the text is the in-order concatenation of
\* `message.content` across its entries.  Blocks and entries without the
\* field add nothing.
C3_SecondShapeWhenNoList ==
    \A i \in Slots :
        Finished(i, "ask_ai") /\ Answered(i, 200) /\ IsObject(call[i].exchange.body)
        => LET body == call[i].exchange.body
           IN  call[i].out.Response =
                  IF IsList(body, "content") THEN ContentShapeText(body)
                  ELSE ChoicesShapeText(body)

\* a 200 body with a `content` list without text and `choices` with text
\* came back as an empty text
C3_Witness ==
    \E i \in Slots :
        /\ Finished(i, "ask_ai") /\ Answered(i, 200)
        /\ IsList(call[i].exchange.body, "content")
        /\ ContentShapeText(call[i].exchange.body) = ""
        /\ ChoicesShapeText(call[i].exchange.body) = "CD"
        /\ call[i].out.Response = ""

\* C4: on a 200 reply whose body yields no text from `content` nor from
\* `choices`, the result is a success whose response is the raw body.
C4_RawBodyFallback ==
    \A i \in Slots :
        /\ Finished(i, "ask_ai") /\ Answered(i, 200)
        /\ ContentShapeText(call[i].exchange.body) = ""
        /\ ChoicesShapeText(call[i].exchange.body) = ""
        => /\ call[i].out.Status = "success"
           /\ call[i].out.Response = Raw(call[i].exchange.body)

NoCredentialSent(i) ==
    /\ Len(call[i].sent) = 1
    /\ DOMAIN call[i].sent[1].headers \cap PaymentHeaders = {}

\* C5, as stated: get_invoice sends no payment credential; a 402 reply
\* gives invoice_generated, any other status an unexpected-status result
\* naming it, and no reply gives a plain success.
C5_InvoiceOnEvery402 ==
    \A i \in Slots :
        /\ Started(i, "get_invoice") => NoCredentialSent(i)
        /\ Finished(i, "get_invoice") /\ call[i].exchange.kind = "response"
           => LET status == call[i].exchange.status
              IN  /\ status = 402 => call[i].out.Status = "invoice_generated"
                  /\ status # 402 =>
                        call[i].out.Status = "unexpected_status_" \o ToString(status)
                  /\ call[i].out.Status # "success"

\* C5, amended: get_invoice sends no payment credential; a 402 reply whose
\* body decodes as a JSON object (or null) gives invoice_generated, a 402
\* reply whose body does not decode gives the status error, any other
\* status gives an unexpected-status result naming it, and no reply gives a
\* plain success.
C5_InvoiceOnDecoded402 ==
    \A i \in Slots :
        /\ Started(i, "get_invoice") => NoCredentialSent(i)
        /\ Finished(i, "get_invoice") /\ call[i].exchange.kind = "response"
           => LET status == call[i].exchange.status
                  body == call[i].exchange.body
              IN  /\ status = 402 /\ IsObject(body)
                        => call[i].out.Status = "invoice_generated"
                  /\ status = 402 /\ ~IsObject(body)
                        => call[i].out.Status = "error"
                  /\ status # 402 =>
                        call[i].out.Status = "unexpected_status_" \o ToString(status)
                  /\ call[i].out.Status # "success"

\* a 402 reply carrying an invoice became invoice_generated
C5_Witness ==
    \E i \in Slots :
        /\ Finished(i, "get_invoice") /\ Answered(i, 402)
        /\ NoCredentialSent(i)
        /\ call[i].out.Status = "invoice_generated"
        /\ call[i].out.ChargeID = "c1"
        /\ call[i].out.AmountSats = 50

PricedModels ==
    {"claude-sonnet-4-20250514", "claude-3-5-sonnet-20241022", "gpt-4-turbo",
     "gpt-3.5-turbo"}

\* the output tokens an estimate is made for
TokensCounted(i) ==
    IF call[i].input.MaxTokens <= 0 THEN 1024 ELSE call[i].input.MaxTokens

\* C6: every get_pricing call returns, whatever the model, the token count
\* and BTC_PRICE_USD, an estimate of at least 1 sat; for a model that is not
\* in the pricing table the estimate is the one of the claude-sonnet-4 entry
\* (0.0036 and 0.018 USD per 1K) and the call does not fail.
C6_FloorAndDefaultEntry ==
    \A i \in Slots :
        Finished(i, "get_pricing")
        => /\ call[i].err = "nil"
           /\ call[i].out.EstimatedSats >= 1
           /\ call[i].input.Model \notin PricedModels
              => /\ DecEq(call[i].out.InputCostPer1K, Dec(36, 4))
                 /\ DecEq(call[i].out.OutputCostPer1K, Dec(18, 3))
                 /\ DecEq(call[i].out.EstimatedUSD,
                          Dec(3600 + 180 * TokensCounted(i), 7))

\* an unknown model priced under a negative BTC_PRICE_USD came out as 1 sat
C6_Witness ==
    \E i \in Slots :
        /\ Finished(i, "get_pricing")
        /\ call[i].input.Model = "o1-preview"
        /\ call[i].input.MaxTokens = 4096
        /\ env = <<"-", "7">>
        /\ call[i].out.EstimatedSats = 1

BalanceFieldsFromBody(i) ==
    LET body == call[i].exchange.body
        out == call[i].out
    IN  /\ WholePartOf(out.BalanceSats, NumAt(body, "balance_sats"))
        /\ DecEq(out.BalanceUSD, NumAt(body, "balance_usd"))
        /\ WholePartOf(out.RequestsLeft, NumAt(body, "requests_left_estimate"))
        /\ out.ExpiresAt = StrAt(body, "expires_at")

\* C8, as stated: on a 200 reply with a JSON object body, balance_sats,
\* balance_usd, requests_left_estimate, expires_at and status each come from
\* the field of that name in the body, zero or empty where it is missing.
C8_StatusFromBody ==
    \A i \in Slots :
        /\ Finished(i, "check_balance") /\ Answered(i, 200)
        /\ call[i].exchange.body.t = "obj"
        => /\ BalanceFieldsFromBody(i)
           /\ call[i].out.Status = StrAt(call[i].exchange.body, "status")

\* C8, amended: on a 200 reply with a JSON object body, balance_sats,
\* balance_usd, requests_left_estimate and expires_at each come from the
\* field of that name in the body (the two counts cut to whole numbers, zero
\* or empty where the field is missing or of the wrong type), and status is
\* "ok" whatever the body's status field says.
C8_StatusAlwaysOk ==
    \A i \in Slots :
        /\ Finished(i, "check_balance") /\ Answered(i, 200)
        /\ call[i].exchange.body.t = "obj"
        => /\ BalanceFieldsFromBody(i)
           /\ call[i].out.Status = "ok"

\* a body with balance 120 and status "active" was reported as 120, "ok"
C8_Witness ==
    \E i \in Slots :
        /\ Finished(i, "check_balance") /\ Answered(i, 200)
        /\ StrAt(call[i].exchange.body, "status") = "active"
        /\ call[i].out.BalanceSats = 120
        /\ call[i].out.Status = "ok"

NetworkTools == {"ask_ai", "get_invoice", "check_balance"}

\* what a handler has returned tells the outcome and is no Go error
StructuredResult(i) ==
    /\ call[i].err = "nil"
    /\ session = "running"
    /\ call[i].tool \in NetworkTools
       => /\ call[i].out.Status # ""
          /\ call[i].exchange.kind # "response" => call[i].out.Status = "error"
    /\ call[i].tool = "list_models" => Len(call[i].out.Models) = 4
    /\ call[i].tool = "get_pricing" => call[i].out.EstimatedSats >= 1

\* the handler that waits in slot i can return
CanReturn(i) ==
    ENABLED (ReturnAskAI(i) \/ ReturnGetInvoice(i) \/ ReturnCheckBalance(i))

\* C9: whatever its exchange comes back with (transport failure, undecodable
\* body, any status) and whatever its arguments, each of the five handlers
\* returns a structured result and a nil error, a handler that waits for
\* its exchange is never stuck, and the session goes on.
C9_HandlersAlwaysReturnResults ==
    \A i \in Slots :
        /\ call[i].pc = "done" => StructuredResult(i)
        /\ call[i].pc = "waiting" => session = "running" /\ CanReturn(i)

\* a transport failure came back as an error result with a nil Go error
C9_Witness ==
    \E i \in Slots :
        /\ Finished(i, "ask_ai")
        /\ call[i].exchange.kind = "do_failed"
        /\ call[i].out.Status = "error"
        /\ call[i].out.Error = "request failed"
        /\ call[i].err = "nil"

\* num / den rounded to the nearest whole number, num >= 0 and den > 0
Rounded(num, den) == (2 * num + den) \div (2 * den)

\* C10: estimated USD = (100/1000) * inputCostPer1K + (tokens/1000) *
\* outputCostPer1K on the model's entry, tokens being 1024 when max_tokens is
\* absent or <= 0, and estimated_sats is that amount divided by the
\* reference rate, times 100,000,000, rounded to the nearest integer, and
\* then raised to 1 if below.  Stated for a positive reference rate.
C10_RoundedSats ==
    \A i \in Slots :
        Finished(i, "get_pricing") /\ BtcPrice(env) > 0
        => LET out == call[i].out
               usd == DecAdd(DecMul(Dec(100, 3), out.InputCostPer1K),
                             DecMul(Dec(TokensCounted(i), 3), out.OutputCostPer1K))
               f == SatsFraction(usd, BtcPrice(env))
               sats == Rounded(f.num, f.den)
           IN  /\ DecEq(out.EstimatedUSD, usd)
               /\ out.EstimatedSats = IF sats < 1 THEN 1 ELSE sats


\* the requests of an invocation: one for a tool that calls the gateway,
\* also after a transport failure, and none for the two local tools
OneRequestAtMost(i) ==
    /\ Len(call[i].sent) <= 1
    /\ call[i].pc \in {"waiting", "done"} /\ call[i].tool \in NetworkTools
       => Len(call[i].sent) = 1
    /\ call[i].tool \notin NetworkTools => call[i].sent = <<>>

\* this invocation can take its next step: start any tool, return from its
\* exchange, or be delivered
NeverHeldUp(i) ==
    session = "running"
    => /\ call[i].pc = "idle"
          => /\ ENABLED CallAskAI(i)
             /\ ENABLED CallGetInvoice(i)
             /\ ENABLED CallCheckBalance(i)
             /\ ENABLED ListModels(i)
             /\ ENABLED GetPricing(i)
       /\ call[i].pc = "waiting" => CanReturn(i)
       /\ call[i].pc = "done" => ENABLED Deliver(i)

\* two invocations of a gateway tool (or of list_models) with the same
\* arguments and the same reply have the same result
SameCallSameResult(i, j) ==
    /\ call[i].pc = "done" /\ call[j].pc = "done"
    /\ call[i].tool = call[j].tool
    /\ call[i].tool \in NetworkTools \cup {"list_models"}
    /\ call[i].input = call[j].input
    /\ call[i].exchange = call[j].exchange
    => call[i].out = call[j].out /\ call[i].err = call[j].err

\* while the session runs, a step is the step of one invocation: the others
\* and the environment are left as they were
OneInvocationSteps ==
    session' = session
    => /\ env' = env
       /\ DOMAIN call' = DOMAIN call
       /\ \A i, j \in DOMAIN call :
             i # j /\ call'[i] # call[i] => call'[j] = call[j]

===========================================================================
